---- MODULE Spec2Model ----
(***************************************************************************)
(* Landmark fingerprinting and matching of ear-peace (backend/app/fp.py).  *)
(*                                                                         *)
(* A signal is represented by what compute_peaks reads of it: its sample   *)
(* rate and its log-magnitude spectrogram S_log, one column of bin         *)
(* magnitudes per STFT frame.  Frames, peaks, hashes, the persisted index  *)
(* and match_query's loop over the candidates are modelled as the code     *)
(* computes them.  Python floats are modelled as reduced fractions.        *)
(***************************************************************************)
EXTENDS Integers, Sequences, FiniteSets, TLC

\* ------------------------------------------------------------------ bounds
\* Frames of a query signal (1 .. MaxQFrames) and of a reference signal
\* (1 .. MaxRFrames).
MaxQFrames == 3
MaxRFrames == 3
\* Frames of the reference a query segment is cut from (SpecSegment).
MaxSegFrames == 4
\* The tunables TOP_K (5), FAN_OUT (5) and MAX_DT (50) of fp.py 27-30, scaled
\* to the size of the modelled spectrograms; the operators take them as
\* parameters, as the Python functions do.
TOP_K == 2
FAN_OUT == 2
MAX_DT == 3
\* _prepare_non_ad tasks that fingerprint_prepare_all may have in flight.
MaxPrepares == 2
\* The loop's clock, in seconds, advances by TickSeconds up to MaxClock.
TickSeconds == 30
MaxClock == 300

\* ------------------------------------------------------- program constants
N_FFT == 2048
HOP == 512
MIN_DT == 1
\* 0x3FF + 1: each field of a hash is masked to 10 bits.
FIELD == 1024
\* ffmpeg -ar 16000: the rate every reference is transcoded to.
TARGET_SR == 16000

None == "None"

\* Rows of the modelled spectrogram: bins 0 and 1 and the top bin N_FFT / 2
\* of the N_FFT / 2 + 1 rows scipy's stft returns.
Bins == {0, 1, N_FFT \div 2}
NumBins == Cardinality(Bins)

\* Columns of S_log: silence (log1p(0) = 0 in every bin) and spectra with
\* energy in the bins from lo upwards.
Silence == [b \in Bins |-> 0]
Tone(lo) == [b \in Bins |-> IF b >= lo THEN 1 ELSE 0]
Columns == {Silence} \cup {Tone(lo) : lo \in Bins \ {0}}

\* The candidate keys, in the iteration order of the mapping.
KeyOrder == <<"k1", "k2">>
Keys == {KeyOrder[j] : j \in 1 .. Len(KeyOrder)}

\* Sample rates of a query wav.
SampleRates == {TARGET_SR, TARGET_SR \div 2}

Min(a, b) == IF a < b THEN a ELSE b
Max(a, b) == IF a > b THEN a ELSE b

\* ------------------------------------------------------------------ floats
RECURSIVE Gcd(_, _)
Gcd(a, b) == IF b = 0 THEN a ELSE Gcd(b, a % b)

Abs(a) == IF a < 0 THEN 0 - a ELSE a

\* The float a / b (b > 0), as the reduced fraction of that value.
Float(a, b) ==
    LET g == Gcd(Abs(a), b)
    IN  [num |-> a \div g, den |-> b \div g]

Zero == Float(0, 1)
One == Float(1, 1)

FloatLe(x, y) == x.num * y.den <= y.num * x.den
FloatLt(x, y) == x.num * y.den < y.num * x.den
FloatMin(x, y) == IF FloatLe(x, y) THEN x ELSE y

\* -------------------------------------------------------------- sequences
RECURSIVE Flatten(_)
\* ss[1] \o ss[2] \o ... : the items the passes of a for-loop append, pass
\* after pass.
Flatten(ss) ==
    IF Len(ss) = 0 THEN <<>>
    ELSE IF Len(ss) = 1 THEN ss[1]
    ELSE LET mid == Len(ss) \div 2
         IN  Flatten(SubSeq(ss, 1, mid)) \o Flatten(SubSeq(ss, mid + 1, Len(ss)))


\* --------------------------------------------------------------- pipeline
\* Order in which argpartition leaves bins of equal magnitude.  numpy fixes it
\* by its selection algorithm (equal columns give equal peaks) and does not
\* specify it; the model takes ascending bin order.
TieOrder == CHOOSE p \in [1 .. NumBins -> Bins] : \A i, j \in 1 .. NumBins : i < j => p[i] < p[j]

TiePos(b) == CHOOSE i \in 1 .. NumBins : TieOrder[i] = b

\* Number of bins that argpartition places before bin b in column col.
Beats(col, b) ==
    Cardinality({c \in Bins : \/ col[c] > col[b]
                              \/ col[c] = col[b] /\ TiePos(c) < TiePos(b)})

\* Mutant of PeaksOfColumn: the bin at position kth of the partition is kept
\* too.
PeaksOfColumnThroughKth(col, top_k) ==
    SelectSeq(TieOrder, LAMBDA b : Beats(col, b) <= top_k)

\* One column of np.argpartition(-S_log, kth)[:top_k]: the top_k bins of
\* greatest magnitude (all bins when there are fewer), in no magnitude order.
PeaksOfColumn(col, top_k) ==
    SelectSeq(TieOrder, LAMBDA b : Beats(col, b) < top_k)

\* compute_peaks: <<peaks, hop>>; peaks[t + 1] are the peak bins of frame t.
compute_peaks(S, top_k, hop) ==
    <<[t \in 1 .. Len(S) |-> PeaksOfColumn(S[t], top_k)], hop>>

\* Mutant of PackHash: the anchor's field is shifted by 19 bits and not 20.
PackHashNarrow(f1, f2, dt) ==
    (f1 % FIELD) * (FIELD * (FIELD \div 2)) + (f2 % FIELD) * FIELD + (dt % FIELD)

\* h = ((f1 & 0x3FF) << 20) | ((f2 & 0x3FF) << 10) | (dt & 0x3FF)
PackHash(f1, f2, dt) ==
    (f1 % FIELD) * (FIELD * FIELD) + (f2 % FIELD) * FIELD + (dt % FIELD)

\* build_hashes: the list of <<h, t>> in the order the loops append them.
build_hashes(peaks, fan_out, min_dt, max_dt) ==
    LET frames == Len(peaks)
        top_k == IF frames = 0 THEN 0 ELSE Len(peaks[1])
    IN  Flatten([t1 \in 1 .. frames |->
          Flatten([k1 \in 1 .. top_k |->
            Flatten([d \in 1 .. (Min(max_dt, frames - (t1 - 1)) - min_dt) |->
              [m1 \in 1 .. Min(fan_out, top_k) |->
                 LET t == t1 - 1
                     dt == min_dt + d - 1
                 IN  <<PackHash(peaks[t + 1][k1], peaks[t + dt + 1][m1], dt), t>>]])])])

\* Mutant of TimesOf: a frame is recorded once for a hash, however often the
\* pair was emitted.
TimesOfOnce(hashes, h) ==
    LET hit == SelectSeq(hashes, LAMBDA e : e[1] = h)
        first == {i \in 1 .. Len(hit) : \A j \in 1 .. (i - 1) : hit[j][2] # hit[i][2]}
        kept == SelectSeq([i \in 1 .. Len(hit) |-> <<i, hit[i][2]>>], LAMBDA e : e[1] \in first)
    IN  [i \in 1 .. Len(kept) |-> kept[i][2]]

\* The frames recorded for hash h, in the order table.setdefault(h, []).append(t)
\* appends them.
TimesOf(hashes, h) ==
    LET hit == SelectSeq(hashes, LAMBDA e : e[1] = h)
    IN  [i \in 1 .. Len(hit) |-> hit[i][2]]

\* index_reference: the FPIndex of a reference signal.
index_reference(sig) ==
    LET pk == compute_peaks(sig.S, TOP_K, HOP)
        hashes == build_hashes(pk[1], FAN_OUT, MIN_DT, MAX_DT)
        hs == {hashes[i][1] : i \in 1 .. Len(hashes)}
    IN  [cls |-> "FPIndex", sr |-> sig.sr, hop |-> pk[2],
         hash_to_times |-> [h \in hs |-> TimesOf(hashes, h)]]

\* ------------------------------------------------------------ persistence
\* Contents of an index file: no file, bytes pickle.load rejects, or the
\* pickle of an object.
Absent == [kind |-> "absent"]
Corrupt == [kind |-> "corrupt"]
\* A well-formed pickle of an object that is no FPIndex.
Foreign == [kind |-> "pickle", obj |-> [cls |-> "dict"]]

\* Mutant of save_index: only the first frame of every list is written.
save_index_first_frame(idx) ==
    [kind |-> "pickle",
     obj |-> [cls |-> idx.cls, sr |-> idx.sr, hop |-> idx.hop,
              items |-> {<<h, SubSeq(idx.hash_to_times[h], 1, 1)>> : h \in DOMAIN idx.hash_to_times}]]

\* save_index: pickle.dump writes the object's class, its sr and hop and the
\* items (hash, frame list) of its dict.
save_index(idx) ==
    [kind |-> "pickle",
     obj |-> [cls |-> idx.cls, sr |-> idx.sr, hop |-> idx.hop,
              items |-> {<<h, idx.hash_to_times[h]>> : h \in DOMAIN idx.hash_to_times}]]

\* pickle.load of a pickled object.
Unpickle(obj) ==
    IF obj.cls = "FPIndex"
    THEN [cls |-> obj.cls, sr |-> obj.sr, hop |-> obj.hop,
          hash_to_times |-> [h \in {it[1] : it \in obj.items} |->
                               (CHOOSE it \in obj.items : it[1] = h)[2]]]
    ELSE obj

\* load_index: open(path, 'rb') raises when there is no file and pickle.load
\* raises on bytes that are no pickle; otherwise the unpickled object is
\* returned, whatever its class.
load_index(file) ==
    CASE file.kind = "absent" -> [ok |-> FALSE, exc |-> "FileNotFoundError"]
      [] file.kind = "corrupt" -> [ok |-> FALSE, exc |-> "UnpicklingError"]
      [] OTHER -> [ok |-> TRUE, obj |-> Unpickle(file.obj)]

\* ---------------------------------------------------------------- matcher
\* Mutant of OffsetsVisited: only the first recorded frame of a hash votes.
OffsetsVisitedFirstOnly(q_hashes, table) ==
    LET known == DOMAIN table
    IN  Flatten([i \in 1 .. Len(q_hashes) |->
                   LET h == q_hashes[i][1]
                       tq == q_hashes[i][2]
                       lst == IF h \in known THEN table[h] ELSE <<>>
                   IN  IF lst # <<>> THEN <<lst[1] - tq>> ELSE <<>>])

\* The offsets tr - tq the voting loop visits, in order: for each query hash
\* (h, tq), each tr of idx.hash_to_times.get(h).
OffsetsVisited(q_hashes, table) ==
    LET known == DOMAIN table
    IN  Flatten([i \in 1 .. Len(q_hashes) |->
                   LET h == q_hashes[i][1]
                       tq == q_hashes[i][2]
                       lst == IF h \in known THEN table[h] ELSE <<>>
                   IN  [j \in 1 .. Len(lst) |-> lst[j] - tq]])

\* offsets[off] = offsets.get(off, 0) + 1 for every visited offset: the dict
\* as the sequence of its items <<off, votes>> in insertion order.  An offset
\* is inserted at its first visit and counts its visits.
Tally(visited) ==
    LET at == {<<CHOOSE i \in 1 .. Len(visited) :
                    visited[i] = off /\ \A j \in 1 .. (i - 1) : visited[j] # off,
                 off>> : off \in {visited[i] : i \in 1 .. Len(visited)}}
        items == [n \in 1 .. Cardinality(at) |->
                    LET p == CHOOSE q \in at : Cardinality({r \in at : r[1] <= q[1]}) = n
                    IN  <<p[2], Cardinality({j \in 1 .. Len(visited) : visited[j] = p[2]})>>]
    IN  SubSeq(items, 1, Len(items))

\* Mutant of MaxItem: min instead of max, the first item of fewest votes.
MaxItemFewest(offsets) ==
    offsets[CHOOSE i \in 1 .. Len(offsets) :
              /\ \A j \in 1 .. Len(offsets) : offsets[j][2] >= offsets[i][2]
              /\ \A j \in 1 .. (i - 1) : offsets[j][2] > offsets[i][2]]

\* Mutant of MaxItem: the last item, in insertion order, of greatest vote
\* count.
MaxItemLastOfGreatest(offsets) ==
    offsets[CHOOSE i \in 1 .. Len(offsets) :
              /\ \A j \in 1 .. Len(offsets) : offsets[j][2] <= offsets[i][2]
              /\ \A j \in (i + 1) .. Len(offsets) : offsets[j][2] < offsets[i][2]]

\* max(offsets.items(), key=lambda kv: kv[1]): the first item, in insertion
\* order, of greatest vote count.
MaxItem(offsets) ==
    offsets[CHOOSE i \in 1 .. Len(offsets) :
              /\ \A j \in 1 .. Len(offsets) : offsets[j][2] <= offsets[i][2]
              /\ \A j \in 1 .. (i - 1) : offsets[j][2] < offsets[i][2]]

\* Mutant of LoopInit: best_votes starts at 4, a candidate needs more votes
\* than that to be kept.
LoopInitThreshold == [best_key |-> None, best_votes |-> 4, best_offset_frames |-> 0]

\* The state match_query carries from one candidate to the next.
LoopInit == [best_key |-> None, best_votes |-> 0, best_offset_frames |-> 0]

\* The histogram of one loaded candidate.
Histogram(q_hashes, idx) == Tally(OffsetsVisited(q_hashes, idx.hash_to_times))

\* Mutant of Compare: votes >= best_votes, the last of equal candidates wins.
CompareLastWins(st, key, offsets) ==
    IF offsets = <<>> THEN st
    ELSE LET best == MaxItem(offsets)
         IN  IF best[2] >= st.best_votes
             THEN [best_key |-> key, best_votes |-> best[2], best_offset_frames |-> best[1]]
             ELSE st

\* The comparison that ends one iteration of the loop over the candidates.
Compare(st, key, offsets) ==
    IF offsets = <<>> THEN st
    ELSE LET best == MaxItem(offsets)
         IN  IF best[2] > st.best_votes
             THEN [best_key |-> key, best_votes |-> best[2], best_offset_frames |-> best[1]]
             ELSE st

Raised(exc) == [kind |-> "raise", exc |-> exc]

\* read_mono_wav and the stft of compute_peaks on a wav too short for one
\* frame, the signal without frames: np.max of no samples raises ValueError
\* (fp.py 39), and so does stft when the samples are at most n_fft - hop,
\* the overlap it is asked for (fp.py 46).  Any other wav is read.
read_mono_wav(sig) ==
    IF Len(sig.S) = 0 THEN Raised("ValueError")
    ELSE [kind |-> "read", sr |-> sig.sr, S |-> sig.S]

\* Mutant of Iterate: the load is not in a try block.
IterateNoTry(st, hashes, key, file) ==
    LET got == load_index(file)
    IN  IF ~got.ok
        THEN Raised(got.exc)
        ELSE IF hashes # <<>> /\ got.obj.cls # "FPIndex"
        THEN Raised("AttributeError")
        ELSE LET offs == IF hashes = <<>> THEN <<>> ELSE Histogram(hashes, got.obj)
             IN  [kind |-> "voted", loop |-> Compare(st, key, offs), offsets |-> offs]

\* One iteration of for key, idx_path in indices.items(): the load in its
\* try/except, the voting loop, the comparison with the best so far.  A query
\* with hashes reads idx.hash_to_times, which an object of another class
\* does not have.
Iterate(st, hashes, key, file) ==
    LET got == load_index(file)
    IN  IF ~got.ok
        THEN [kind |-> "skip", loop |-> st]
        ELSE IF hashes # <<>> /\ got.obj.cls # "FPIndex"
        THEN Raised("AttributeError")
        ELSE LET offs == IF hashes = <<>> THEN <<>> ELSE Histogram(hashes, got.obj)
             IN  [kind |-> "voted", loop |-> Compare(st, key, offs), offsets |-> offs]

\* return None, 0.0, 0.0
NoMatch == [kind |-> "return", key |-> None, offset_seconds |-> Zero, confidence |-> Zero]

\* Mutant of Finish: the offset is converted with the rate the references are
\* indexed at, not with the query's.
FinishIndexRate(st, sr, hop, n_hashes) ==
    IF st.best_key = None
    THEN NoMatch
    ELSE [kind |-> "return", key |-> st.best_key,
          offset_seconds |-> Float(st.best_offset_frames * hop, TARGET_SR),
          confidence |-> FloatMin(One, Float(st.best_votes, Max(1, n_hashes)))]

\* Mutant of Finish: the confidence is not clipped.
FinishUnclipped(st, sr, hop, n_hashes) ==
    IF st.best_key = None
    THEN NoMatch
    ELSE [kind |-> "return", key |-> st.best_key,
          offset_seconds |-> Float(st.best_offset_frames * hop, sr),
          confidence |-> Float(st.best_votes, Max(1, n_hashes))]

\* The value match_query returns after the loop.
Finish(st, sr, hop, n_hashes) ==
    IF st.best_key = None
    THEN NoMatch
    ELSE [kind |-> "return", key |-> st.best_key,
          offset_seconds |-> Float(st.best_offset_frames * hop, sr),
          confidence |-> FloatMin(One, Float(st.best_votes, Max(1, n_hashes)))]

\* Mutant of Items: the loop visits every known key, not the mapping's.
ItemsAllKeys(ind) == KeyOrder

\* The keys the loop of match_query visits: indices.items(), in order.
Items(ind) == ind

RECURSIVE RunLoop(_, _, _, _, _)
\* The loop from candidate pos on: the state after the last candidate, or the
\* exception that left the loop.
RunLoop(st, hashes, ind, files, at) ==
    IF at > Len(Items(ind)) THEN [kind |-> "over", loop |-> st]
    ELSE LET it == Iterate(st, hashes, Items(ind)[at], files[Items(ind)[at]])
         IN  IF it.kind = "raise" THEN it
             ELSE RunLoop(it.loop, hashes, ind, files, at + 1)

\* match_query(query_wav, indices), with the index files as they are.
match_query(sig, ind, files) ==
    LET pk == compute_peaks(sig.S, TOP_K, HOP)
        hashes == build_hashes(pk[1], FAN_OUT, MIN_DT, MAX_DT)
    IN  IF read_mono_wav(sig).kind = "raise" THEN read_mono_wav(sig)
        ELSE IF hashes = <<>> THEN NoMatch
        ELSE LET run == RunLoop(LoopInit, hashes, ind, files, 1)
             IN  IF run.kind = "raise" THEN run
                 ELSE Finish(run.loop, sig.sr, pk[2], Len(hashes))

\* ------------------------------------------------------------------ state
VARIABLES
    store,      \* index file of every candidate key (INDEX_DIR)
    query,      \* the query signal: its sample rate and spectrogram
    indices,    \* match_query's mapping, as its keys in iteration order
    pc,         \* position of the match_query call
    q_hashes,   \* the query's hashes
    pos,        \* next candidate of the loop over indices.items()
    loop,       \* best_key, best_votes, best_offset_frames
    offsets,    \* histogram of the candidate voted last
    loaded,     \* keys whose index load_index was asked for, in order
    result,     \* what the call returned or raised
    call,       \* a function of fp.py applied on its own, with its arguments
    ret,        \* what that function returned
    custom,     \* CustomMedia rows: the status stored for each key
    assets,     \* MediaAsset rows: the status stored for each non-AD key
    disk,       \* the uploaded file and the transcoded wav of each key
    uploads,    \* the admin_custom_upload requests and where each stands
    tasks,      \* the _prepare_and_index_custom tasks and where each stands
    prepares,   \* number of _prepare_non_ad tasks in flight for the catalog reference
    temp,       \* the files of TEMP_DIR: query_input.bin and query.wav
    matches,    \* the match_clip requests and where each stands
    sched,      \* the _maintenance_scheduler task
    runs,       \* the run_maintenance task of /admin/maintenance
    now,        \* the event loop's clock
    LAST_MAINTENANCE_AT

vars == <<store, query, indices, pc, q_hashes, pos, loop, offsets, loaded, result, call, ret,
         custom, assets, disk, uploads, tasks,
         prepares, temp, matches, sched, runs, now, LAST_MAINTENANCE_AT>>


SeqsUpTo(S, lo, hi) == UNION {[1 .. n -> S] : n \in lo .. hi}

QuerySignals == [sr : SampleRates, S : SeqsUpTo(Columns, 1, MaxQFrames)]
RefSignals == [sr : {TARGET_SR}, S : SeqsUpTo(Columns, 1, MaxRFrames)]

\* What an index file can hold when a match starts.
Files == {Absent, Corrupt, Foreign} \cup {save_index(index_reference(r)) : r \in RefSignals}

Pending == [kind |-> "pending"]

\* No function is applied on its own.
NoCall == [fn |-> "none"]

\* The keys admin_custom_upload derives from one file name are those of
\* KeyOrder: the base key and the base key with the suffix _1.  No row:
NoRow == "none"

\* The non-AD key of a catalog reference.
AssetKey == "a1"
LibKeys == Keys \cup {AssetKey}

\* Contents of a media file: no file, a file just opened for writing, bytes
\* of two writers, or audio.
NoFile == [kind |-> "none"]
EmptyFile == [kind |-> "empty"]
Garbled == [kind |-> "garbled"]
AudioFile(sig) == [kind |-> "audio", sig |-> sig]

\* The upload requests, both for a file of the same name.
Requests == {"u1", "u2"}

\* The match_clip requests.
Clips == {"m1", "m2"}

\* What a library step leaves alone of the matches over HTTP and of the
\* maintenance.
elsewhere == <<temp, matches, sched, runs, now, LAST_MAINTENANCE_AT>>

library == <<custom, assets, disk, uploads, tasks, prepares, elsewhere>>

\* No /match request.
NoMatches ==
    /\ temp = [raw |-> NoFile, wav |-> NoFile]
    /\ matches = [c \in Clips |-> [pc |-> "none"]]

\* main.py 85 and 364: LAST_MAINTENANCE_AT is None until a run sets it to the
\* loop's time.
NotRun == [kind |-> "None"]
At(t) == [kind |-> "float", value |-> t]

\* No maintenance: EARPEACE_CRON_INTERVAL_SECONDS is not positive and
\* on_startup starts no scheduler.
NoMaintenance ==
    /\ sched = [pc |-> "none"]
    /\ runs = [pc |-> "none"]
    /\ now = 0
    /\ LAST_MAINTENANCE_AT = NotRun

\* No library beside the match under way.
NoLibrary ==
    /\ custom = [k \in Keys |-> NoRow]
    /\ assets = [k \in {AssetKey} |-> NoRow]
    /\ disk = [k \in Keys |-> [file |-> NoFile, wav |-> NoFile]]
    /\ uploads = [r \in Requests |-> [pc |-> "none"]]
    /\ tasks = [r \in Requests |-> [pc |-> "none"]]
    /\ prepares = 0
    /\ NoMatches
    /\ NoMaintenance


Init ==
    /\ query \in QuerySignals
    /\ \E n \in 0 .. Len(KeyOrder) :
         /\ indices = SubSeq(KeyOrder, 1, n)
         /\ store \in [Keys -> Files]
         /\ \A k \in Keys : (\A j \in 1 .. n : KeyOrder[j] # k) => store[k] = Absent
    /\ pc = "start"
    /\ q_hashes = <<>>
    /\ pos = 1
    /\ loop = LoopInit
    /\ offsets = <<>>
    /\ loaded = <<>>
    /\ result = Pending
    /\ call = NoCall
    /\ ret = Pending
    /\ NoLibrary

\* Mutant of HashQuery: no early return for a query without hashes.
HashQueryNoEarlyReturn ==
    /\ pc = "start"
    /\ q_hashes' = build_hashes(compute_peaks(query.S, TOP_K, HOP)[1], FAN_OUT, MIN_DT, MAX_DT)
    /\ pc' = "loop"
    /\ UNCHANGED <<store, query, indices, pos, loop, offsets, loaded, result, call, ret>>
    /\ UNCHANGED library

\* fp.py 102-111: hash the query; no hashes, no match.
HashQuery ==
    /\ pc = "start"
    /\ LET pk == compute_peaks(query.S, TOP_K, HOP)
           hs == build_hashes(pk[1], FAN_OUT, MIN_DT, MAX_DT)
       IN  /\ q_hashes' = hs
           /\ IF read_mono_wav(query).kind = "raise"
              THEN pc' = "done" /\ result' = read_mono_wav(query)
              ELSE IF hs = <<>>
              THEN pc' = "done" /\ result' = NoMatch
              ELSE pc' = "loop" /\ result' = result
    /\ UNCHANGED <<store, query, indices, pos, loop, offsets, loaded, call, ret>>
    /\ UNCHANGED library

\* The iteration the loop is about to run.
Step == Iterate(loop, q_hashes, Items(indices)[pos], store[Items(indices)[pos]])

\* fp.py 113-117: the candidate's load raises, the candidate is skipped.
SkipCandidate ==
    /\ pc = "loop"
    /\ pos <= Len(Items(indices))
    /\ LET it == Step
       IN  it.kind = "skip" /\ loop' = it.loop
    /\ loaded' = Append(loaded, Items(indices)[pos])
    /\ pos' = pos + 1
    /\ UNCHANGED <<store, query, indices, pc, q_hashes, offsets, result, call, ret>>
    /\ UNCHANGED library

\* Mutant of VoteCandidate: the lookups insert the query's unknown hashes with
\* no frames (setdefault for get) and the index is written back.
VoteCandidateInserting ==
    /\ pc = "loop"
    /\ pos <= Len(Items(indices))
    /\ LET it == Step
       IN  it.kind = "voted" /\ offsets' = it.offsets /\ loop' = it.loop
    /\ loaded' = Append(loaded, Items(indices)[pos])
    /\ pos' = pos + 1
    /\ LET k == Items(indices)[pos]
           idx == load_index(store[k]).obj
           hs == {q_hashes[i][1] : i \in 1 .. Len(q_hashes)}
           table == [h \in DOMAIN idx.hash_to_times \cup hs |->
                       IF h \in DOMAIN idx.hash_to_times THEN idx.hash_to_times[h] ELSE <<>>]
       IN  store' = [store EXCEPT ![k] = save_index([idx EXCEPT !.hash_to_times = table])]
    /\ UNCHANGED <<query, indices, pc, q_hashes, result, call, ret>>
    /\ UNCHANGED library

\* fp.py 113-136: the candidate's index loads, the query votes, the best
\* candidate so far is kept.
VoteCandidate ==
    /\ pc = "loop"
    /\ pos <= Len(Items(indices))
    /\ LET it == Step
       IN  it.kind = "voted" /\ offsets' = it.offsets /\ loop' = it.loop
    /\ loaded' = Append(loaded, Items(indices)[pos])
    /\ pos' = pos + 1
    /\ UNCHANGED <<store, query, indices, pc, q_hashes, result, call, ret>>
    /\ UNCHANGED library

\* fp.py 113-122: an exception leaves the loop and match_query.
RaiseInLoop ==
    /\ pc = "loop"
    /\ pos <= Len(Items(indices))
    /\ LET it == Step
       IN  it.kind = "raise" /\ result' = it
    /\ loaded' = Append(loaded, Items(indices)[pos])
    /\ pc' = "done"
    /\ UNCHANGED <<store, query, indices, q_hashes, pos, loop, offsets, call, ret>>
    /\ UNCHANGED library

\* fp.py 138-145: the loop is over, the result is returned.
Return ==
    /\ pc = "loop"
    /\ pos > Len(Items(indices))
    /\ result' = Finish(loop, query.sr, compute_peaks(query.S, TOP_K, HOP)[2], Len(q_hashes))
    /\ pc' = "done"
    /\ UNCHANGED <<store, query, indices, q_hashes, pos, loop, offsets, loaded, call, ret>>
    /\ UNCHANGED library

Next == HashQuery \/ SkipCandidate \/ VoteCandidate \/ RaiseInLoop \/ Return

Spec == Init /\ [][Next]_vars

\* References a query segment is cut from.
SegSignals == [sr : {TARGET_SR}, S : SeqsUpTo(Columns, 1, MaxSegFrames)]

\* The frames s .. s + n - 1 of a reference, as a signal of its own: the
\* frames of a segment that starts s hops into the reference and holds a whole
\* number of frames are the reference's.
Segment(r, s, n) == [sr |-> r.sr, S |-> SubSeq(r.S, s + 1, s + n)]

\* Every reference with the index file built from it.
SegFiles == {<<r, save_index(index_reference(r))>> : r \in SegSignals}

\* A match of a segment of a reference against the index built from that
\* reference, alone or after a candidate whose file is no index.
InitSegment ==
    /\ \E rf \in SegFiles :
         /\ \E s \in 0 .. (MaxSegFrames - 1), n \in 1 .. MaxSegFrames :
              /\ s + n <= Len(rf[1].S)
              /\ query = Segment(rf[1], s, n)
         /\ \E stale \in {Absent, Corrupt, Foreign} :
              \/ /\ indices = <<"k1">>
                 /\ stale = Absent
                 /\ store = [k \in Keys |-> IF k = "k1" THEN rf[2] ELSE Absent]
              \/ /\ indices = <<"k2", "k1">>
                 /\ store = [k \in Keys |-> IF k = "k1" THEN rf[2] ELSE stale]
    /\ pc = "start"
    /\ q_hashes = <<>>
    /\ pos = 1
    /\ loop = LoopInit
    /\ offsets = <<>>
    /\ loaded = <<>>
    /\ result = Pending
    /\ call = NoCall
    /\ ret = Pending
    /\ NoLibrary

SpecSegment == InitSegment /\ [][Next]_vars

\* ------------------------------------------------- the functions, one by one
\* Values of a field of a hash: the least, the greatest that fits 10 bits and
\* the first that does not.
Fields == {0, 1, FIELD - 1, FIELD}
Triples == Fields \X Fields \X Fields

\* Spectrograms handed to compute_peaks and build_hashes on their own.
CallSignals == SeqsUpTo(Columns, 1, MaxSegFrames)

PackCalls == [fn : {"pack"}, a : Triples, b : Triples]
PeakCalls == [fn : {"compute_peaks"}, S : SeqsUpTo(Columns, 1, 2), top_k : 1 .. (NumBins + 1)]
HashCalls ==
    [fn : {"build_hashes"},
     peaks : {<<>>} \cup {compute_peaks(S, TOP_K, HOP)[1] : S \in CallSignals}]
TripCalls == [fn : {"round_trip"}, idx : {index_reference(r) : r \in RefSignals}]
\* Wavs handed to index_reference and match_query on their own, the wav too
\* short for one frame among them.
IndexCalls == [fn : {"index_reference"}, sig : [sr : SampleRates, S : SeqsUpTo(Columns, 0, MaxRFrames)]]
MatchCalls ==
    [fn : {"match_query"}, sig : [sr : SampleRates, S : SeqsUpTo(Columns, 0, 2)],
     indices : {<<>>, <<"k1">>}]
\* The index files of the matches called on their own.
CallFiles ==
    [k \in Keys |-> save_index(index_reference([sr |-> TARGET_SR,
                                                 S |-> <<Tone(1), Silence, Tone(1)>>]))]

\* The value a function returned.
Value(v) == [kind |-> "value", value |-> v]

InitCalls ==
    /\ call \in PackCalls \cup PeakCalls \cup HashCalls \cup TripCalls \cup IndexCalls \cup MatchCalls
    /\ ret = Pending
    /\ query = [sr |-> TARGET_SR, S |-> <<Silence>>]
    /\ indices = <<>>
    /\ store = [k \in Keys |-> Absent]
    /\ pc = "idle"
    /\ q_hashes = <<>>
    /\ pos = 1
    /\ loop = LoopInit
    /\ offsets = <<>>
    /\ loaded = <<>>
    /\ result = Pending
    /\ NoLibrary

\* fp.py 70: two landmarks are packed.
CallPack ==
    /\ call.fn = "pack" /\ ret = Pending
    /\ ret' = Value(<<PackHash(call.a[1], call.a[2], call.a[3]),
                      PackHash(call.b[1], call.b[2], call.b[3])>>)
    /\ UNCHANGED <<store, query, indices, pc, q_hashes, pos, loop, offsets, loaded, result, call>>
    /\ UNCHANGED library

\* fp.py 44-53
CallComputePeaks ==
    /\ call.fn = "compute_peaks" /\ ret = Pending
    /\ ret' = Value(compute_peaks(call.S, call.top_k, HOP)[1])
    /\ UNCHANGED <<store, query, indices, pc, q_hashes, pos, loop, offsets, loaded, result, call>>
    /\ UNCHANGED library

\* fp.py 56-72
CallBuildHashes ==
    /\ call.fn = "build_hashes" /\ ret = Pending
    /\ ret' = Value(build_hashes(call.peaks, FAN_OUT, MIN_DT, MAX_DT))
    /\ UNCHANGED <<store, query, indices, pc, q_hashes, pos, loop, offsets, loaded, result, call>>
    /\ UNCHANGED library

\* fp.py 85-93: an index is saved and loaded back.
CallRoundTrip ==
    /\ call.fn = "round_trip" /\ ret = Pending
    /\ ret' = Value(load_index(save_index(call.idx)))
    /\ UNCHANGED <<store, query, indices, pc, q_hashes, pos, loop, offsets, loaded, result, call>>
    /\ UNCHANGED library

\* fp.py 75-82: an exception of the read or of the stft leaves
\* index_reference.
CallIndexReference ==
    /\ call.fn = "index_reference" /\ ret = Pending
    /\ ret' = IF read_mono_wav(call.sig).kind = "raise"
              THEN read_mono_wav(call.sig)
              ELSE Value(index_reference(call.sig))
    /\ UNCHANGED <<store, query, indices, pc, q_hashes, pos, loop, offsets, loaded, result, call>>
    /\ UNCHANGED library

\* fp.py 96-145
CallMatchQuery ==
    /\ call.fn = "match_query" /\ ret = Pending
    /\ ret' = match_query(call.sig, call.indices, CallFiles)
    /\ UNCHANGED <<store, query, indices, pc, q_hashes, pos, loop, offsets, loaded, result, call>>
    /\ UNCHANGED library

NextCalls ==
    \/ CallPack
    \/ CallComputePeaks
    \/ CallBuildHashes
    \/ CallRoundTrip
    \/ CallIndexReference
    \/ CallMatchQuery

SpecCalls == InitCalls /\ [][NextCalls]_vars


\* ------------------------------------------------------------ the library
\* What ffmpeg decodes from the file of each upload.
Audio(r) ==
    IF r = "u1" THEN [sr |-> TARGET_SR, S |-> <<Tone(1), Silence, Tone(1)>>]
    ELSE [sr |-> TARGET_SR, S |-> <<Silence, Tone(1), Tone(1)>>]
\* The wav of the catalog reference.
AssetAudio == [sr |-> TARGET_SR, S |-> <<Tone(1), Tone(1), Silence>>]

\* The order of the lifecycle's statuses.
Rank(status) ==
    CASE status = "pending" -> 0
      [] status = "downloading" -> 1
      [] status = "downloaded" -> 2
      [] status = "prepared" -> 3
      [] status = "indexed" -> 4

\* A started server: an empty custom library, and a database that holds no
\* catalog reference or one prepared earlier.
InitLibrary ==
    /\ custom = [k \in Keys |-> NoRow]
    /\ assets \in [{AssetKey} -> {NoRow, "prepared"}]
    /\ disk = [k \in Keys |-> [file |-> NoFile, wav |-> NoFile]]
    /\ uploads = [r \in Requests |-> [pc |-> "new"]]
    /\ tasks = [r \in Requests |-> [pc |-> "none"]]
    /\ prepares = 0
    /\ NoMatches
    /\ NoMaintenance
    /\ store = [k \in LibKeys |-> Absent]
    /\ call = NoCall
    /\ ret = Pending
    /\ query = [sr |-> TARGET_SR, S |-> <<Silence>>]
    /\ indices = <<>>
    /\ pc = "idle"
    /\ q_hashes = <<>>
    /\ pos = 1
    /\ loop = LoopInit
    /\ offsets = <<>>
    /\ loaded = <<>>
    /\ result = Pending

\* What a match leaves alone in the library's steps.
matching == <<query, indices, pc, q_hashes, pos, loop, offsets, loaded, result>>

\* main.py 433-439: the first key no row has.
FreeKey == KeyOrder[CHOOSE j \in 1 .. Len(KeyOrder) :
                      /\ custom[KeyOrder[j]] = NoRow
                      /\ \A i \in 1 .. (j - 1) : custom[KeyOrder[i]] # NoRow]

\* main.py 431-443: admin_custom_upload picks the key and opens the file for
\* writing, then awaits the upload's bytes.
UploadOpen(r) ==
    /\ uploads[r].pc = "new"
    /\ \E k \in Keys : custom[k] = NoRow
    /\ LET key == FreeKey
       IN  /\ uploads' = [uploads EXCEPT ![r] = [pc |-> "reading", key |-> key]]
           /\ disk' = [disk EXCEPT ![key].file = EmptyFile]
    /\ UNCHANGED <<store, call, ret, custom, assets, tasks>>
    /\ UNCHANGED matching
    /\ UNCHANGED <<prepares, elsewhere>>

\* main.py 443-449: the bytes are written, the row is upserted with status
\* downloaded and the background task is created.
UploadStore(r) ==
    /\ uploads[r].pc = "reading"
    /\ LET key == uploads[r].key
       IN  /\ \E content \in IF disk[key].file = EmptyFile
                              THEN {AudioFile(Audio(r))}
                              ELSE {AudioFile(Audio(r)), Garbled} :
                 disk' = [disk EXCEPT ![key].file = content]
           /\ custom' = [custom EXCEPT ![key] = "downloaded"]
           /\ tasks' = [tasks EXCEPT ![r] = [pc |-> "queued", key |-> key]]
    /\ uploads' = [uploads EXCEPT ![r].pc = "done"]
    /\ UNCHANGED <<store, call, ret, assets>>
    /\ UNCHANGED matching
    /\ UNCHANGED <<prepares, elsewhere>>

\* main.py 576-598: the task reads its row and starts ffmpeg in a thread; no
\* row, no work.
TaskStart(r) ==
    /\ tasks[r].pc = "queued"
    /\ tasks' = [tasks EXCEPT ![r].pc =
                    IF custom[tasks[r].key] = NoRow THEN "done" ELSE "transcoding"]
    /\ UNCHANGED <<store, call, ret, custom, assets, disk, uploads>>
    /\ UNCHANGED matching
    /\ UNCHANGED <<prepares, elsewhere>>

\* main.py 587-602: ffmpeg transcodes the file to the wav of the key; a file
\* it cannot decode ends the task; of the bytes of two writers it may decode
\* the audio of either or nothing.
Transcode(r) ==
    /\ tasks[r].pc = "transcoding"
    /\ LET key == tasks[r].key
           src == disk[key].file
       IN  \/ /\ src.kind = "audio"
              /\ disk' = [disk EXCEPT ![key].wav = src]
              /\ tasks' = [tasks EXCEPT ![r].pc = "transcoded"]
           \/ /\ src.kind = "garbled"
              /\ \E u \in Requests : disk' = [disk EXCEPT ![key].wav = AudioFile(Audio(u))]
              /\ tasks' = [tasks EXCEPT ![r].pc = "transcoded"]
           \/ /\ src.kind # "audio"
              /\ disk' = disk
              /\ tasks' = [tasks EXCEPT ![r].pc = "done"]
    /\ UNCHANGED <<store, call, ret, custom, assets, uploads>>
    /\ UNCHANGED matching
    /\ UNCHANGED <<prepares, elsewhere>>

\* Mutant of TaskFinish: the task is suspended inside save_index, after the
\* file was opened and before the pickle is written.
TaskFinishSuspendedInSave(r) ==
    /\ tasks[r].pc = "transcoded"
    /\ LET key == tasks[r].key
       IN  /\ custom' = [custom EXCEPT ![key] = "prepared"]
           /\ store' = [store EXCEPT ![key] = IF disk[key].wav.kind = "audio" THEN Corrupt ELSE @]
    /\ tasks' = [tasks EXCEPT ![r].pc = "done"]
    /\ UNCHANGED <<call, ret, assets, disk, uploads>>
    /\ UNCHANGED matching
    /\ UNCHANGED <<prepares, elsewhere>>

\* main.py 603-611: the task resumes: status prepared, then the index is
\* built from the wav and saved and the status is indexed; an exception
\* (no wav) leaves the status prepared.
TaskFinish(r) ==
    /\ tasks[r].pc = "transcoded"
    /\ LET key == tasks[r].key
       IN  IF disk[key].wav.kind = "audio"
           THEN /\ store' = [store EXCEPT ![key] = save_index(index_reference(disk[key].wav.sig))]
                /\ custom' = [custom EXCEPT ![key] = "indexed"]
           ELSE /\ store' = store
                /\ custom' = [custom EXCEPT ![key] = "prepared"]
    /\ tasks' = [tasks EXCEPT ![r].pc = "done"]
    /\ UNCHANGED <<call, ret, assets, disk, uploads>>
    /\ UNCHANGED matching
    /\ UNCHANGED <<prepares, elsewhere>>

\* main.py 482-500: admin_custom_delete removes the files the row names, the
\* index file and the row.  The row names its wav from the upsert of main.py
\* 603 on, that is with status prepared or indexed; the upsert of an upload
\* stores no wav_path.
Delete(k) ==
    /\ custom[k] # NoRow \/ store[k] # Absent
    /\ disk' = IF custom[k] \in {"prepared", "indexed"}
               THEN [disk EXCEPT ![k] = [file |-> NoFile, wav |-> NoFile]]
               ELSE IF custom[k] # NoRow
               THEN [disk EXCEPT ![k].file = NoFile]
               ELSE disk
    /\ store' = [store EXCEPT ![k] = Absent]
    /\ custom' = [custom EXCEPT ![k] = NoRow]
    /\ UNCHANGED <<call, ret, assets, uploads, tasks>>
    /\ UNCHANGED matching
    /\ UNCHANGED <<prepares, elsewhere>>

\* main.py 217-223, 259-261 and fp.py 113-117: a /match restricted to the
\* custom key k answers 400 when the key has no index file and loads the file
\* when it has one.
MatchCustom(k) ==
    /\ call' = [fn |-> "match_clip", key |-> k]
    /\ ret' = IF store[k] = Absent
              THEN [kind |-> "raise", exc |-> "HTTP 400"]
              ELSE Value(load_index(store[k]))
    /\ <<call', ret'>> # <<call, ret>>
    /\ UNCHANGED <<store, custom, assets, disk, uploads, tasks>>
    /\ UNCHANGED matching
    /\ UNCHANGED <<prepares, elsewhere>>

\* The keyword file_size of db.py 46 has no default and no call of main.py
\* passes it: upsert_media_asset raises before it opens a session.
upsert_media_asset == [kind |-> "raise", exc |-> "TypeError"]

\* main.py 619-705: fingerprint_enqueue fetches the item and fails at its
\* first upsert (main.py 644), or earlier on what the catalog answers.
Enqueue ==
    /\ call' = [fn |-> "fingerprint_enqueue"]
    /\ ret' \in {upsert_media_asset, [kind |-> "raise", exc |-> "HTTP 404"]}
    /\ <<call', ret'>> # <<call, ret>>
    /\ UNCHANGED <<store, custom, assets, disk, uploads, tasks>>
    /\ UNCHANGED matching
    /\ UNCHANGED <<prepares, elsewhere>>

\* main.py 708-732: fingerprint_prepare_all queues a _prepare_non_ad task for
\* the catalog reference unless its status says it is under way; the task
\* fails at its first upsert.
PrepareAll ==
    /\ call' = [fn |-> "fingerprint_prepare_all"]
    /\ LET queued == IF assets[AssetKey] \in {"prepared", "indexed", "downloading", "downloaded"}
                     THEN 0 ELSE 1
       IN  /\ ret' = Value([queued |-> queued])
           /\ prepares + queued <= MaxPrepares
           /\ prepares' = prepares + queued
    /\ <<call', ret', prepares'>> # <<call, ret, prepares>>
    /\ UNCHANGED <<store, custom, assets, disk, uploads, tasks>>
    /\ UNCHANGED matching
    /\ UNCHANGED elsewhere

\* main.py 619-650: a queued _prepare_non_ad task fetches the item and ends
\* at its first upsert, or earlier on what the catalog answers; it writes no
\* row.
PrepareTaskEnds ==
    /\ prepares > 0
    /\ prepares' = prepares - 1
    /\ UNCHANGED <<store, call, ret, custom, assets, disk, uploads, tasks>>
    /\ UNCHANGED matching
    /\ UNCHANGED elsewhere

\* main.py 741-763: for a prepared asset the index is built and saved, the
\* upsert that would mark it indexed raises and the except clause goes on:
\* the row stays prepared and nothing is counted.
BuildPrepared ==
    [store |-> IF assets[AssetKey] = "prepared"
               THEN [store EXCEPT ![AssetKey] = save_index(index_reference(AssetAudio))]
               ELSE store,
     indexed |-> 0]

\* main.py 735-763: fingerprint_build
Build ==
    /\ call' = [fn |-> "fingerprint_build"]
    /\ store' = BuildPrepared.store
    /\ ret' = Value([indexed |-> BuildPrepared.indexed])
    /\ <<call', ret', store'>> # <<call, ret, store>>
    /\ UNCHANGED <<custom, assets, disk, uploads, tasks>>
    /\ UNCHANGED matching
    /\ UNCHANGED <<prepares, elsewhere>>

\* main.py 334-365 and 398-402: a maintenance run fetches the catalog, in
\* which every _prepare_non_ad fails and is passed over, and then builds; a
\* failed fetch ends the run before the build.
Maintenance ==
    /\ call' = [fn |-> "run_maintenance"]
    /\ \/ /\ store' = BuildPrepared.store
          /\ ret' = Value([prepared |-> 0, indexed |-> BuildPrepared.indexed])
          /\ LAST_MAINTENANCE_AT' = At(now)
       \/ /\ store' = store
          /\ ret' = [kind |-> "raise", exc |-> "HTTPError"]
          /\ LAST_MAINTENANCE_AT' = LAST_MAINTENANCE_AT
    /\ <<call', ret', store', LAST_MAINTENANCE_AT'>> # <<call, ret, store, LAST_MAINTENANCE_AT>>
    /\ UNCHANGED <<custom, assets, disk, uploads, tasks>>
    /\ UNCHANGED matching
    /\ UNCHANGED <<prepares, temp, matches, sched, runs, now>>

NextLibrary ==
    \/ \E r \in Requests : UploadOpen(r)
    \/ \E r \in Requests : UploadStore(r)
    \/ \E r \in Requests : TaskStart(r)
    \/ \E r \in Requests : Transcode(r)
    \/ \E r \in Requests : TaskFinish(r)
    \/ \E k \in Keys : Delete(k)
    \/ \E k \in Keys : MatchCustom(k)
    \/ Enqueue
    \/ PrepareAll
    \/ PrepareTaskEnds
    \/ Build
    \/ Maintenance

SpecLibrary == InitLibrary /\ [][NextLibrary]_vars

\* ------------------------------------------------- matches over HTTP
\* What a step of a /match request leaves alone.
matchless == <<store, query, indices, pc, q_hashes, pos, loop, offsets, loaded, result,
               call, ret, custom, assets, disk, uploads, tasks, prepares,
               sched, runs, now, LAST_MAINTENANCE_AT>>

\* What a client posts to /match: a recording ffmpeg decodes, or bytes it
\* rejects.
Posted == Requests \cup {"bad"}

\* The clip_id of a /match request: none, or the custom reference.
ClipIds == {None, "custom:k1"}

\* The bytes of an upload in query_input.bin.
Bytes(u) == [kind |-> "bytes", upload |-> u]

\* main.py 194-205: ffmpeg -y -i query_input.bin -ac 1 -ar 16000 query.wav on
\* what it read of its input.
ffmpeg(raw) ==
    IF raw.kind = "bytes" /\ raw.upload \in Requests
    THEN [returncode |-> 0, out |-> AudioFile(Audio(raw.upload))]
    ELSE [returncode |-> 1, out |-> NoFile]

\* A server with one indexed custom reference and two /match requests
\* received.
InitMatches ==
    /\ matches \in [Clips -> [pc : {"received"}, upload : Posted, clip_id : ClipIds,
                              read : {NoFile}, returncode : {0}, heard : {NoFile},
                              ret : {Pending}]]
    /\ temp = [raw |-> NoFile, wav |-> NoFile]
    /\ custom = [k \in Keys |-> IF k = "k1" THEN "indexed" ELSE NoRow]
    /\ store = [k \in LibKeys |-> IF k = "k1" THEN save_index(index_reference(Audio("u1")))
                                  ELSE Absent]
    /\ assets = [k \in {AssetKey} |-> NoRow]
    /\ disk = [k \in Keys |-> [file |-> NoFile, wav |-> NoFile]]
    /\ uploads = [r \in Requests |-> [pc |-> "none"]]
    /\ tasks = [r \in Requests |-> [pc |-> "none"]]
    /\ prepares = 0
    /\ NoMaintenance
    /\ call = NoCall
    /\ ret = Pending
    /\ query = [sr |-> TARGET_SR, S |-> <<Silence>>]
    /\ indices = <<>>
    /\ pc = "idle"
    /\ q_hashes = <<>>
    /\ pos = 1
    /\ loop = LoopInit
    /\ offsets = <<>>
    /\ loaded = <<>>
    /\ result = Pending

\* main.py 188-199, the end of match_clip's first stretch: the upload is
\* written to query_input.bin and ffmpeg is handed to a thread.
StartFfmpeg(c) ==
    /\ temp' = [temp EXCEPT !.raw = Bytes(matches[c].upload)]
    /\ matches' = [matches EXCEPT ![c].pc = "ffmpeg"]

\* main.py 188-190: open(raw_path, "wb") empties query_input.bin, and
\* audio.read() either answers from memory or suspends the request.
MatchOpen(c) ==
    /\ matches[c].pc = "received"
    /\ \/ StartFfmpeg(c)
       \/ /\ temp' = [temp EXCEPT !.raw = EmptyFile]
          /\ matches' = [matches EXCEPT ![c].pc = "reading"]
    /\ UNCHANGED matchless

\* main.py 190-199: audio.read() answers.
MatchWrite(c) ==
    /\ matches[c].pc = "reading"
    /\ StartFfmpeg(c)
    /\ UNCHANGED matchless

\* The ffmpeg of request c, in its thread, reads query_input.bin.
FfmpegRead(c) ==
    /\ matches[c].pc = "ffmpeg"
    /\ matches' = [matches EXCEPT ![c].pc = "decoding", ![c].read = temp.raw]
    /\ UNCHANGED temp
    /\ UNCHANGED matchless

\* The ffmpeg of request c writes query.wav, or fails and writes nothing.
FfmpegWrite(c) ==
    /\ matches[c].pc = "decoding"
    /\ LET run == ffmpeg(matches[c].read)
       IN  /\ matches' = [matches EXCEPT ![c].pc = "transcoded", ![c].returncode = run.returncode]
           /\ temp' = IF run.returncode = 0 THEN [temp EXCEPT !.wav = run.out] ELSE temp
    /\ UNCHANGED matchless

\* main.py 211-257: the index map of a request, the keys whose index file
\* exists.
IndexMap(clip_id) ==
    IF clip_id = None
    THEN SelectSeq(KeyOrder, LAMBDA k : custom[k] = "indexed" /\ store[k] # Absent)
    ELSE SelectSeq(<<"k1">>, LAMBDA k : store[k] # Absent)

\* main.py 206-275: match_clip resumes when its ffmpeg has ended, and runs
\* to its response without suspending.
MatchResume(c) ==
    /\ matches[c].pc = "transcoded"
    /\ IF matches[c].returncode # 0 \/ temp.wav = NoFile
       THEN matches' = [matches EXCEPT ![c].pc = "done", ![c].ret = Raised("RuntimeError")]
       ELSE IF IndexMap(matches[c].clip_id) = <<>>
       THEN matches' = [matches EXCEPT ![c].pc = "done", ![c].ret = Raised("HTTP 400")]
       ELSE matches' = [matches EXCEPT ![c].pc = "done", ![c].heard = temp.wav,
                                       ![c].ret = match_query(temp.wav.sig,
                                                              IndexMap(matches[c].clip_id), store)]
    /\ UNCHANGED temp
    /\ UNCHANGED matchless

NextMatches ==
    \/ \E c \in Clips : MatchOpen(c)
    \/ \E c \in Clips : MatchWrite(c)
    \/ \E c \in Clips : FfmpegRead(c)
    \/ \E c \in Clips : FfmpegWrite(c)
    \/ \E c \in Clips : MatchResume(c)

SpecMatches == InitMatches /\ [][NextMatches]_vars

\* ------------------------------------------------------------ maintenance
\* What a step of the maintenance leaves alone.
unscheduled == <<query, indices, pc, q_hashes, pos, loop, offsets, loaded, result,
                 custom, assets, disk, uploads, tasks, prepares, temp, matches>>

\* main.py 376: the shortest sleep of the scheduler.
MinSleep == 60

\* Values of EARPEACE_CRON_INTERVAL_SECONDS.
Intervals == {0, 30, 120}

\* How a run_maintenance ends, by the phases it completed: _prepare_all_sync
\* raises on the catalog's answer, fingerprint_build raises at its query or
\* its mkdir, or both return.
NoRun == [ran |-> FALSE, prepare |-> FALSE, build |-> FALSE]
RunOutcomes ==
    {[ran |-> TRUE, prepare |-> FALSE, build |-> FALSE],
     [ran |-> TRUE, prepare |-> TRUE, build |-> FALSE],
     [ran |-> TRUE, prepare |-> TRUE, build |-> TRUE]}

\* main.py 360-365: what a run that ends with outcome o has written.  The
\* stretch from the last await of the prepare phase to the return does not
\* suspend.
run_maintenance(o) ==
    /\ store' = IF o.build THEN BuildPrepared.store ELSE store
    /\ LAST_MAINTENANCE_AT' = IF o.build THEN At(now) ELSE LAST_MAINTENANCE_AT

\* Mutant of AfterRun: a scheduler whose loop does not catch.
AfterRunUncaught(o) == IF o.build THEN "sleeping" ELSE "dead"

\* main.py 370-376: where the scheduler stands after a run: except Exception
\* passes, and the loop sleeps.
AfterRun(o) == "sleeping"

\* main.py 50-59: on_startup starts the scheduler when the interval is
\* positive, and its first run starts at once.
InitScheduler ==
    /\ \E interval \in Intervals :
         sched = [pc |-> IF interval > 0 THEN "prepare" ELSE "none",
                  interval |-> interval, prev |-> NoRun, slept |-> 0]
    /\ runs = [pc |-> "none", prev |-> NoRun]
    /\ now = 0
    /\ LAST_MAINTENANCE_AT = NotRun
    /\ assets \in [{AssetKey} -> {NoRow, "prepared"}]
    /\ custom = [k \in Keys |-> NoRow]
    /\ disk = [k \in Keys |-> [file |-> NoFile, wav |-> NoFile]]
    /\ uploads = [r \in Requests |-> [pc |-> "none"]]
    /\ tasks = [r \in Requests |-> [pc |-> "none"]]
    /\ prepares = 0
    /\ NoMatches
    /\ store = [k \in LibKeys |-> Absent]
    /\ call = NoCall
    /\ ret = Pending
    /\ query = [sr |-> TARGET_SR, S |-> <<Silence>>]
    /\ indices = <<>>
    /\ pc = "idle"
    /\ q_hashes = <<>>
    /\ pos = 1
    /\ loop = LoopInit
    /\ offsets = <<>>
    /\ loaded = <<>>
    /\ result = Pending

\* The loop's clock.
Tick ==
    /\ now + TickSeconds <= MaxClock
    /\ now' = now + TickSeconds
    /\ UNCHANGED <<store, call, ret, sched, runs, LAST_MAINTENANCE_AT>>
    /\ UNCHANGED unscheduled

\* main.py 370-376: the scheduler's run ends, and the scheduler sleeps.
SchedRunEnds ==
    /\ sched.pc = "prepare"
    /\ \E o \in RunOutcomes :
         /\ run_maintenance(o)
         /\ sched' = [sched EXCEPT !.pc = AfterRun(o), !.prev = o, !.slept = now]
    /\ UNCHANGED <<call, ret, runs, now>>
    /\ UNCHANGED unscheduled

\* main.py 376 and 370-372: asyncio.sleep(max(60, interval_seconds)) returns
\* and the loop starts the next run.
SchedWake ==
    /\ sched.pc = "sleeping"
    /\ now >= sched.slept + Max(MinSleep, sched.interval)
    /\ sched' = [sched EXCEPT !.pc = "prepare"]
    /\ UNCHANGED <<store, call, ret, runs, now, LAST_MAINTENANCE_AT>>
    /\ UNCHANGED unscheduled

\* main.py 398-402: admin_maintenance starts a run in the background.
AdminMaintenance ==
    /\ runs.pc = "none"
    /\ runs' = [runs EXCEPT !.pc = "prepare"]
    /\ call' = [fn |-> "admin_maintenance"]
    /\ ret' = Value([started |-> TRUE])
    /\ UNCHANGED <<store, sched, now, LAST_MAINTENANCE_AT>>
    /\ UNCHANGED unscheduled

\* main.py 360-365: the run of admin_maintenance ends; nothing awaits it.
AdminRunEnds ==
    /\ runs.pc = "prepare"
    /\ \E o \in RunOutcomes :
         /\ run_maintenance(o)
         /\ runs' = [pc |-> "none", prev |-> o]
    /\ UNCHANGED <<call, ret, sched, now>>
    /\ UNCHANGED unscheduled

NextScheduler ==
    \/ Tick
    \/ SchedRunEnds
    \/ SchedWake
    \/ AdminMaintenance
    \/ AdminRunEnds

\* The loop's time passes, and the loop resumes a task whose sleep is over.
SpecScheduler ==
    InitScheduler /\ [][NextScheduler]_vars /\ WF_vars(Tick) /\ WF_vars(SchedWake)


\* ----------------------------------------------------------------- claims
\* What the claims speak of, stated on the inputs of the call and not on the
\* loop's variables.
Offered == {indices[j] : j \in 1 .. Len(indices)}
PosOf(k) == CHOOSE j \in 1 .. Len(indices) : indices[j] = k
LoadFails(k) == ~load_index(store[k]).ok
Loads(k) == load_index(store[k]).ok /\ load_index(store[k]).obj.cls = "FPIndex"
TableOf(k) == load_index(store[k]).obj.hash_to_times
Returned == pc = "done" /\ result.kind = "return"

\* The pairs (i, j) of a query hash entry i and an occurrence j in the list
\* the table has for its hash, each with the difference tr - tq of its frames.
VotePairs(hashes, table) ==
    LET known == DOMAIN table
    IN  UNION {LET lst == table[hashes[i][1]]
               IN  {<<i, j, lst[j] - hashes[i][2]>> : j \in 1 .. Len(lst)} :
               i \in {i \in 1 .. Len(hashes) : hashes[i][1] \in known}}
\* Number of those pairs whose frames differ by o.
VotesAt(pairs, o) == Cardinality({p \in pairs : p[3] = o})
Votes(k, o) == VotesAt(VotePairs(q_hashes, TableOf(k)), o)
\* The offsets tr - tq there can be: tq and tr are frames of signals of at most
\* MaxFrames frames.
MaxFrames == Max(Max(MaxQFrames, MaxRFrames), MaxSegFrames)
OffsetRange == (1 - MaxFrames) .. (MaxFrames - 1)
\* A candidate's score: its highest per-offset vote count.
Score(k) ==
    LET pairs == VotePairs(q_hashes, TableOf(k))
        vs == {VotesAt(pairs, o) : o \in OffsetRange}
    IN  CHOOSE v \in vs : \A w \in vs : w <= v
HasHistogram(k) ==
    /\ Loads(k)
    /\ \E i \in 1 .. Len(q_hashes) :
         /\ q_hashes[i][1] \in DOMAIN TableOf(k)
         /\ TableOf(k)[q_hashes[i][1]] # <<>>

\* C1: a candidate whose index cannot be loaded is skipped: the call ends as
\* it does on the same mapping, in the same order, without the candidates
\* whose load fails, and no exception of a load leaves match_query.
C1_FailedLoadsAreSkipped ==
    pc = "done" =>
        /\ result = match_query(query, SelectSeq(indices, LAMBDA k : ~LoadFails(k)), store)
        /\ result.kind = "raise" =>
               \A k \in Offered : LoadFails(k) => result.exc # load_index(store[k]).exc

C1_Witness ==
    /\ pc = "done"
    /\ Len(indices) = 2
    /\ LoadFails(indices[1])
    /\ result.kind = "return"
    /\ result.key = indices[2]

\* C2: the returned key has a maximal score among the candidates with a
\* histogram, and the candidates before it in the mapping score strictly less.
C2_BestScoreFirstWins ==
    (Returned /\ result.key # None) =>
        /\ result.key \in Offered
        /\ HasHistogram(result.key)
        /\ \A k \in Offered :
             HasHistogram(k) =>
                 /\ Score(k) <= Score(result.key)
                 /\ PosOf(k) < PosOf(result.key) => Score(k) < Score(result.key)

C2_Witness ==
    /\ Returned
    /\ Len(indices) = 2
    /\ result.key = indices[1]
    /\ HasHistogram(indices[2])
    /\ Score(indices[2]) = Score(indices[1])

\* C3: after the voting loop over a loaded candidate, the histogram holds for
\* every offset o the number of pairs (query hash entry, occurrence of the hash
\* in the candidate) with tr - tq = o, each offset once.
C3_HistogramCountsPairs ==
    (pc = "loop" /\ pos > 1 /\ Loads(indices[pos - 1])) =>
        LET pairs == VotePairs(q_hashes, TableOf(indices[pos - 1]))
        IN  /\ \A o \in OffsetRange :
                 LET votes == VotesAt(pairs, o)
                     held == {i \in 1 .. Len(offsets) : offsets[i][1] = o}
                 IN  IF votes = 0
                     THEN held = {}
                     ELSE /\ Cardinality(held) = 1
                          /\ \A i \in held : offsets[i] = <<o, votes>>
            /\ \A i \in 1 .. Len(offsets) : offsets[i][1] \in OffsetRange

\* A hash of the query occurs at two frames of the candidate, and one offset
\* collects several votes.
C3_Witness ==
    /\ pc = "loop" /\ pos > 1 /\ Loads(indices[pos - 1])
    /\ \E h \in DOMAIN TableOf(indices[pos - 1]) :
         /\ Len(TableOf(indices[pos - 1])[h]) >= 2
         /\ \E i \in 1 .. Len(q_hashes) : q_hashes[i][1] = h
    /\ \E i \in 1 .. Len(offsets) : offsets[i][2] >= 2
    /\ Len(offsets) >= 2

\* C4: the confidence lies in [0, 1], and with a key returned it is
\* min(1, score of that key / number of query hashes).
C4_ConfidenceClipped ==
    Returned =>
        /\ FloatLe(Zero, result.confidence)
        /\ FloatLe(result.confidence, One)
        /\ result.key # None =>
               result.confidence =
                   IF Score(result.key) >= Len(q_hashes)
                   THEN One
                   ELSE Float(Score(result.key), Len(q_hashes))

\* The winning offset has more votes than the query has hashes.
C4_Witness ==
    /\ Returned
    /\ result.key # None
    /\ Score(result.key) > Len(q_hashes)
    /\ result.confidence = One

\* C6: for a silent query the call returns (None, 0.0, 0.0), whatever the
\* candidates hold.
C6_SilentQueryMatchesNothing ==
    (Returned /\ \A t \in 1 .. Len(query.S) : query.S[t] = Silence) => result = NoMatch

\* C7: a query without hashes ends the call at once with (None, 0.0, 0.0),
\* before any index is loaded.
C7_NoHashesReturnsAtOnce ==
    (pc # "start" /\ q_hashes = <<>>) =>
        /\ pc = "done"
        /\ result = NoMatch
        /\ loaded = <<>>

C7_Witness ==
    /\ pc = "done"
    /\ q_hashes = <<>>
    /\ Len(indices) = 2
    /\ \A k \in Offered : Loads(k) /\ DOMAIN TableOf(k) # {}

\* C8: with an empty mapping the call returns (None, 0.0, 0.0) and loads no
\* index.
C8_NoCandidatesNoLoad ==
    (indices = <<>>) =>
        /\ loaded = <<>>
        /\ pc = "done" => result = NoMatch

C8_Witness ==
    /\ indices = <<>>
    /\ pc = "done"
    /\ q_hashes # <<>>

\* C9: (None, 0.0, 0.0) is returned exactly when no candidate has a histogram
\* entry; a returned key has a score of at least 1 and a confidence above 0.
C9_NoMatchIffNoVotes ==
    Returned =>
        /\ (result.key = None) <=> ~(\E k \in Offered : HasHistogram(k))
        /\ result.key = None => result = NoMatch
        /\ result.key # None =>
               /\ Score(result.key) >= 1
               /\ loop.best_votes >= 1
               /\ FloatLt(Zero, result.confidence)

\* A candidate loads and the query has hashes, yet none occurs in its index.
C9_Witness ==
    /\ Returned
    /\ result = NoMatch
    /\ q_hashes # <<>>
    /\ \E k \in Offered : Loads(k)

\* C10: the returned offset is the winning offset in frames times the query's
\* hop, divided by the query's sample rate.
C10_OffsetUsesQueryRate ==
    (Returned /\ result.key # None) =>
        /\ Votes(result.key, loop.best_offset_frames) = Score(result.key)
        /\ result.offset_seconds =
               Float(loop.best_offset_frames * compute_peaks(query.S, TOP_K, HOP)[2], query.sr)

\* The query's rate differs from the rate in the winning index, and the
\* offset is not zero.
C10_Witness ==
    /\ Returned
    /\ result.key # None
    /\ load_index(store[result.key]).obj.sr # query.sr
    /\ loop.best_offset_frames # 0
    /\ result.offset_seconds = Float(loop.best_offset_frames * HOP, query.sr)

\* The references and start frames the query is a segment of, when the
\* mapping holds the index of that reference and nothing else.
SegmentOf ==
    LET built == {rf[1] : rf \in {rf \in SegFiles : store["k1"] = rf[2]}}
    IN  {rs \in built \X (0 .. (MaxSegFrames - 1)) :
            /\ indices = <<"k1">>
            /\ rs[2] + Len(query.S) <= Len(rs[1].S)
            /\ query = Segment(rs[1], rs[2], Len(query.S))}

\* C5: a query that is a segment of the reference starting at frame s is
\* matched to that reference with a confidence above 0 and an offset within
\* one hop of s.
C5_SegmentWithinOneHop ==
    pc = "done" =>
        \A rs \in SegmentOf :
            /\ result.kind = "return"
            /\ result.key = "k1"
            /\ FloatLt(Zero, result.confidence)
            /\ FloatLe(Float((rs[2] - 1) * HOP, query.sr), result.offset_seconds)
            /\ FloatLe(result.offset_seconds, Float((rs[2] + 1) * HOP, query.sr))

\* C5 as amended: a segment of at least MIN_DT + 1 frames is matched to the
\* reference with confidence 1; the true offset s has a vote for every query
\* hash, the reported offset has at least as many, and it is s when no other
\* offset has as many votes as s.
C5_SegmentFound ==
    (pc = "done" /\ Len(query.S) >= MIN_DT + 1) =>
        \A rs \in SegmentOf :
            LET pairs == VotePairs(q_hashes, TableOf("k1"))
                atS == VotesAt(pairs, rs[2])
            IN  /\ result.kind = "return"
                /\ result.key = "k1"
                /\ result.confidence = One
                /\ atS >= Len(q_hashes)
                /\ VotesAt(pairs, loop.best_offset_frames) >= atS
                /\ result.offset_seconds = Float(loop.best_offset_frames * HOP, query.sr)
                /\ (\A o \in OffsetRange \ {rs[2]} : VotesAt(pairs, o) < atS)
                       => loop.best_offset_frames = rs[2]

\* A segment that starts after the reference's first frame is found at its
\* true offset.
C5_Witness ==
    /\ pc = "done"
    /\ \E rs \in SegmentOf :
         /\ rs[2] >= 1
         /\ result.kind = "return"
         /\ result.key = "k1"
         /\ loop.best_offset_frames = rs[2]
         /\ LET pairs == VotePairs(q_hashes, TableOf("k1"))
            IN  \A o \in OffsetRange \ {rs[2]} : VotesAt(pairs, o) < VotesAt(pairs, rs[2])

\* The status /match answers with for an outcome of match_query: 500 when it
\* raises, 404 "No match found" when there is no key or no confidence, else 200.
match_clip_status(res) ==
    IF res.kind = "raise" THEN 500
    ELSE IF res.key = None \/ FloatLe(res.confidence, Zero) THEN 404
    ELSE 200

\* C13: load_index returns nothing but a well-formed FPIndex (every load that
\* does not fail gives an FPIndex), so that no content of an index file makes
\* match_query raise after the load.
C13_LoadChecksFormat ==
    /\ \A j \in 1 .. Len(loaded) : LoadFails(loaded[j]) \/ Loads(loaded[j])
    /\ pc = "done" => result.kind = "return"

\* C14: a query without hashes ends otherwise than a query with hashes for
\* which no candidate has votes (that one returns NoMatch and /match answers
\* 404): another value from match_query and another answer from /match.
C14_ZeroHashesDistinct ==
    (pc = "done" /\ q_hashes = <<>>) =>
        /\ result # NoMatch
        /\ match_clip_status(result) # match_clip_status(NoMatch)

\* C15: match_query reads the indexes and writes none: no step of a match
\* changes what an index file holds, so a load after the match gives the
\* mapping a load before it gave, without the query's unknown hashes.
C15_MatchLeavesIndexes == [][store' = store]_vars

\* A match is over in which a candidate's index was loaded and voted on while
\* some hash of the query is unknown to it, and the file still lacks that hash.
C15_Witness ==
    /\ pc = "done"
    /\ \E j \in 1 .. Len(loaded) :
         /\ Loads(loaded[j])
         /\ \E i \in 1 .. Len(q_hashes) :
              q_hashes[i][1] \notin DOMAIN load_index(store[loaded[j]]).obj.hash_to_times

Unpack(h) == <<h \div (FIELD * FIELD), (h \div FIELD) % FIELD, h % FIELD>>

FitsField(tr) == \A n \in 1 .. 3 : tr[n] < FIELD

\* C16: for anchor bin, target bin and time difference each below 1024, the
\* three fields are recoverable from the hash and two different triples never
\* get the same hash.
C16_PackInjective ==
    (call.fn = "pack" /\ ret # Pending /\ FitsField(call.a) /\ FitsField(call.b)) =>
        /\ Unpack(ret.value[1]) = call.a
        /\ Unpack(ret.value[2]) = call.b
        /\ call.a # call.b => ret.value[1] # ret.value[2]

\* Two triples that differ in the anchor bin alone, with the greatest values
\* that fit in the other fields, were packed.
C16_Witness ==
    /\ call.fn = "pack" /\ ret # Pending
    /\ FitsField(call.a) /\ FitsField(call.b)
    /\ call.a[1] # call.b[1]
    /\ call.a[2] = FIELD - 1 /\ call.b[2] = FIELD - 1
    /\ call.a[3] = FIELD - 1 /\ call.b[3] = FIELD - 1

\* C17: with N_FFT = 2048 every bin compute_peaks emits is below 1024, so
\* that landmarks of different bins never get the same hash.
C17_BinsFitField ==
    /\ (call.fn = "compute_peaks" /\ ret # Pending) =>
          \A t \in 1 .. Len(ret.value) : \A k \in 1 .. Len(ret.value[t]) :
              ret.value[t][k] < FIELD
    /\ (call.fn = "pack" /\ ret # Pending /\ call.a # call.b
            /\ {call.a[1], call.a[2], call.b[1], call.b[2]} \subseteq 0 .. (N_FFT \div 2)
            /\ call.a[3] < FIELD /\ call.b[3] < FIELD) =>
          ret.value[1] # ret.value[2]

\* C19: an anchor at frame t is paired with the frames t + dt for every dt of
\* the inclusive range MIN_DT .. min(MAX_DT, frames - 1 - t), and with no
\* other frame.
C19_PairingWindow ==
    (call.fn = "build_hashes" /\ ret # Pending) =>
        LET frames == Len(call.peaks)
            paired == {<<ret.value[i][2], ret.value[i][1] % FIELD>> : i \in 1 .. Len(ret.value)}
        IN  paired = {td \in (0 .. (frames - 1)) \X (MIN_DT .. MAX_DT) :
                        td[2] <= Min(MAX_DT, frames - 1 - td[1])}

\* C20: in every frame compute_peaks returns distinct bins of the frame, at
\* most top_k and at most as many as the frame has; no bin left out has a
\* strictly greater magnitude than a bin returned; and a frame with fewer
\* than top_k bins returns all its bins.
C20_PeaksAreTopBins ==
    (call.fn = "compute_peaks" /\ ret # Pending) =>
        /\ Len(ret.value) = Len(call.S)
        /\ \A t \in 1 .. Len(ret.value) :
             LET pk == ret.value[t]
                 in == {pk[k] : k \in 1 .. Len(pk)}
             IN  /\ in \subseteq Bins
                 /\ Cardinality(in) = Len(pk)
                 /\ Len(pk) <= call.top_k
                 /\ Len(pk) <= NumBins
                 /\ \A b \in in : \A c \in Bins \ in : call.S[t][c] <= call.S[t][b]
                 /\ NumBins < call.top_k => in = Bins
                 /\ Len(pk) = Min(call.top_k, NumBins)

\* Peaks were returned for a frame that has more bins than top_k, one of them
\* louder than the others, and for a silent frame.
C20_Witness ==
    /\ call.fn = "compute_peaks" /\ ret # Pending
    /\ call.top_k < NumBins
    /\ Len(call.S) = 2
    /\ call.S[1] = Tone(N_FFT \div 2)
    /\ call.S[2] = Silence
    /\ \E k \in 1 .. Len(ret.value[1]) : ret.value[1][k] = N_FFT \div 2

\* The complete indexes of the audio the uploads bring.
CompleteIndexes == {index_reference(Audio(u)) : u \in Requests}

C18_StatusMovesForward ==
    [][/\ \A k \in Keys :
            /\ (custom[k] # NoRow /\ custom'[k] # NoRow) => Rank(custom'[k]) >= Rank(custom[k])
            /\ (custom[k] # "indexed" /\ custom'[k] = "indexed") =>
                  (store'[k] # Absent /\ load_index(store'[k]).ok)
       /\ (assets[AssetKey] # NoRow /\ assets'[AssetKey] # NoRow) =>
             Rank(assets'[AssetKey]) >= Rank(assets[AssetKey])
       /\ (assets[AssetKey] # "indexed" /\ assets'[AssetKey] = "indexed") =>
             (store'[AssetKey] # Absent /\ load_index(store'[AssetKey]).ok)]_vars

\* Pair p is visited by the voting loop before pair q: an earlier entry of the
\* query's hashes, or the same entry and an earlier occurrence in the index.
VisitedBefore(p, q) == p[1] < q[1] \/ (p[1] = q[1] /\ p[2] < q[2])

\* C21: the offset reported for the winning candidate has that candidate's
\* greatest vote count, and of the offsets with that count it is the one the
\* single pass over the query's hashes met first.
C21_FirstSeenGreatestOffset ==
    (Returned /\ result.key # None) =>
        LET pairs == VotePairs(q_hashes, TableOf(result.key))
            o == loop.best_offset_frames
            top == VotesAt(pairs, o)
        IN  /\ top >= 1
            /\ \A o2 \in OffsetRange : VotesAt(pairs, o2) <= top
            /\ \A o2 \in OffsetRange \ {o} :
                 VotesAt(pairs, o2) = top =>
                     \E p \in pairs :
                         /\ p[3] = o
                         /\ \A q \in pairs : q[3] = o2 => VisitedBefore(p, q)
            /\ result.offset_seconds = Float(o * HOP, query.sr)

\* Two offsets of the winning candidate have the greatest vote count.
C21_Witness ==
    /\ Returned
    /\ result.key # None
    /\ \E o2 \in OffsetRange \ {loop.best_offset_frames} :
         Votes(result.key, o2) = Votes(result.key, loop.best_offset_frames)

\* C22: index_reference groups the emitted pairs (hash, frame) without loss:
\* the list of a hash holds each anchor frame as often as the pair of that
\* hash and frame was emitted, the keys are the emitted hashes, and the index
\* records the wav's sample rate and the hop.
C22_IndexGroupsPairs ==
    (call.fn = "index_reference" /\ ret.kind = "value") =>
        LET emitted == build_hashes(compute_peaks(call.sig.S, TOP_K, HOP)[1], FAN_OUT, MIN_DT, MAX_DT)
            table == ret.value.hash_to_times
        IN  /\ DOMAIN table = {emitted[i][1] : i \in 1 .. Len(emitted)}
            /\ \A h \in DOMAIN table : \A t \in 0 .. (Len(call.sig.S) - 1) :
                 Cardinality({j \in 1 .. Len(table[h]) : table[h][j] = t})
                     = Cardinality({i \in 1 .. Len(emitted) : emitted[i] = <<h, t>>})
            /\ \A h \in DOMAIN table : \A j \in 1 .. Len(table[h]) :
                 table[h][j] \in 0 .. (Len(call.sig.S) - 1)
            /\ ret.value.sr = call.sig.sr
            /\ ret.value.hop = HOP

\* An index was built of a wav of the lower rate in which a pair of hash and
\* frame was emitted twice and a hash has anchors at two frames.
C22_Witness ==
    /\ call.fn = "index_reference" /\ ret.kind = "value"
    /\ call.sig.sr # TARGET_SR
    /\ \E h \in DOMAIN ret.value.hash_to_times :
         LET l == ret.value.hash_to_times[h]
         IN  \E i, j \in 1 .. Len(l) : i < j /\ l[i] = l[j]
    /\ \E h \in DOMAIN ret.value.hash_to_times :
         LET l == ret.value.hash_to_times[h]
         IN  \E i, j \in 1 .. Len(l) : l[i] # l[j]

\* C23: a signal of fewer than MIN_DT + 1 frames, the signal without frames
\* included, is no error: build_hashes returns no hash, index_reference
\* returns an index with an empty mapping and match_query returns
\* (None, 0.0, 0.0).
C23_ShortSignalIsNoError ==
    /\ (call.fn = "build_hashes" /\ ret # Pending /\ Len(call.peaks) < MIN_DT + 1) =>
          ret = Value(<<>>)
    /\ (call.fn = "index_reference" /\ ret # Pending /\ Len(call.sig.S) < MIN_DT + 1) =>
          /\ ret.kind = "value"
          /\ DOMAIN ret.value.hash_to_times = {}
    /\ (call.fn = "match_query" /\ ret # Pending /\ Len(call.sig.S) < MIN_DT + 1) =>
          ret = NoMatch

\* C24: a catalog reference enqueued with a successful fetch, download and
\* transcode is recorded as prepared; a build that then indexes it records it
\* as indexed and counts it; and an index file written by a build belongs to
\* an asset whose status is indexed.
C24_EnqueueBuildIndexes ==
    /\ (call.fn = "fingerprint_enqueue" /\ ret # Raised("HTTP 404")) =>
          (ret.kind = "value" /\ assets[AssetKey] = "prepared")
    /\ (call.fn = "fingerprint_build" /\ store[AssetKey] # Absent) =>
          (ret.kind = "value" /\ ret.value.indexed >= 1)
    /\ store[AssetKey] # Absent => assets[AssetKey] = "indexed"

\* The step is the end of an upload that stores its file and its row under
\* key k.
StoresUnder(k) ==
    \E r \in Requests :
        /\ uploads[r].pc = "reading"
        /\ uploads'[r].pc = "done"
        /\ uploads[r].key = k

\* C26: a deleted custom key stays deleted: a row of a key that has none is
\* created by an upload alone, and an index file of a key that has none is
\* written only for a key whose row exists, also when the task of the key was
\* running at the time of the delete.  (A task starts only with its row: the
\* row it misses later is a deleted one.)
C26_DeleteIsDurable ==
    [][\A k \in Keys :
         /\ (custom[k] = NoRow /\ custom'[k] # NoRow) => StoresUnder(k)
         /\ (store[k] = Absent /\ store'[k] # Absent) => custom[k] # NoRow]_vars

\* C27: every accepted upload gets a key of its own: an upload never stores
\* under a key that has a row, nor over the stored file of another upload.
C27_UploadKeysDiffer ==
    [][\A k \in Keys :
         StoresUnder(k) => (custom[k] = NoRow /\ disk[k].file = EmptyFile)]_vars

\* C28: fingerprint_prepare_all starts no task for a reference that is being
\* prepared: at most one _prepare_non_ad task of a reference is in flight.
C28_OnePreparePerReference == prepares <= 1

\* C25: a /match request that reaches match_query runs it on the transcoded
\* audio of its own upload.
C25_MatchHearsOwnUpload ==
    \A c \in Clips :
        (matches[c].pc = "done" /\ matches[c].heard # NoFile)
            => matches[c].heard = AudioFile(Audio(matches[c].upload))

\* The scheduler's last run raised, and its sleep ends within the clock's
\* reach.
RaisedRunOver ==
    /\ sched.pc # "prepare"
    /\ sched.prev.ran /\ ~sched.prev.build
    /\ sched.slept + Max(MinSleep, sched.interval) + TickSeconds <= MaxClock

\* The scheduler runs again after a run that raised.
RunsAfterRaise == sched.pc = "prepare" /\ sched.prev.ran /\ ~sched.prev.build

\* A step that sets LAST_MAINTENANCE_AT is the end of a run, the scheduler's or
\* the administrator's, that completed both phases; a step that starts the
\* scheduler's next run comes max(60, interval) seconds after the sleep
\* began.
MaintenanceStep ==
    /\ LAST_MAINTENANCE_AT' # LAST_MAINTENANCE_AT =>
         /\ LAST_MAINTENANCE_AT' = At(now)
         /\ \/ sched.pc = "prepare" /\ sched'.pc # "prepare"
                 /\ sched'.prev.prepare /\ sched'.prev.build
            \/ runs.pc = "prepare" /\ runs'.pc # "prepare"
                 /\ runs'.prev.prepare /\ runs'.prev.build
    /\ (sched.pc # "prepare" /\ sched'.pc = "prepare") =>
         now >= sched.slept + Max(MinSleep, sched.interval)

\* C29: a started scheduler is always in a run or asleep; after a run that
\* raised, the next run starts once max(60, interval) seconds of sleep have
\* passed; and LAST_MAINTENANCE_AT is set only by a run whose prepare phase
\* and build phase both completed.
C29_SchedulerSurvivesFailure ==
    /\ [](sched.interval > 0 => sched.pc \in {"prepare", "sleeping"})
    /\ RaisedRunOver ~> RunsAfterRaise
    /\ [][MaintenanceStep]_vars
C29_Witness ==
    /\ RunsAfterRaise
    /\ now >= MinSleep
    /\ LAST_MAINTENANCE_AT # NotRun

====
